---- MODULE Spec2Model ----
(***************************************************************************)
(* State-machine model of the CTIRegistry contract (src/unnamed/part_005). *)
(* Every public function of the contract is one action; a transaction      *)
(* that reverts leaves the storage variables as they were and is visible   *)
(* only to its caller, through the revert string.  Calls are made by a     *)
(* client that awaits the outcome of one call before it makes the next.    *)
(* The React components that call the contract (App, src/unnamed/part_003, *)
(* and CTIFeed, src/unnamed/part_002) are modelled with their state hooks  *)
(* as variables and one action per handler continuation: the code between  *)
(* two awaits runs to completion and React commits its state updates       *)
(* together.                                                               *)
(***************************************************************************)
EXTENDS Integers, Sequences, FiniteSets, TLC

\* ------------------------------------------------------------------ bounds

\* Highest number of records one run creates (uint256 ctiCounter is unbounded).
MaxCti == 2
\* Highest number of successful votes one run casts.
MaxVotes == 2
\* Highest value of block.timestamp; the clock starts at 0.
MaxTime == 1

\* ---------------------------------------------------------- input domains

\* Externally owned accounts that send transactions (msg.sender).
Addr == {"X", "Y", "Z"}
\* address(0): the value of an unwritten address slot; never a msg.sender.
ZeroAddr == "0x0"

\* (ipfsHash, category, title) argument triples offered to submitCTI:
\* two valid ones that differ in every field, and the empty-field cases.
SubmitArgs ==
    { <<"Qm1", "Malware", "T1">>, <<"Qm2", "Phishing", "T2">>,
      <<"", "Malware", "T1">>, <<"Qm1", "", "T1">>, <<"Qm1", "Malware", "">>,
      <<"", "", "">> }

\* uint256 ids offered to the functions: 0, every id a run can assign, and one more.
Ids == 0..(MaxCti + 1)

\* ------------------------------------------------------------------ state

VARIABLES
    ctiCounter,       \* uint256 public ctiCounter
    ctiRecords,       \* mapping(uint256 => CTI)
    hasVoted,         \* mapping(uint256 => mapping(address => bool))
    userSubmissions,  \* mapping(address => uint256)
    events,           \* the contract's event log, oldest first
    now,              \* block.timestamp of the block being mined
    lastOp,           \* the call the client has just made, its revert string and return data
    okSubmits,        \* caller-side count of submitCTI transactions that did not revert
    okVotes           \* caller-side set of <<id, sender>> whose voteCTI did not revert

\* The state of the App component and of the wallet it talks to.
VARIABLES
    account,          \* useState(''): the connected address
    isConnected,      \* useState(false)
    appLoading,       \* useState(false): App's loading
    activeTab,        \* useState('feed')
    wallet,           \* the accounts window.ethereum exposes to the page, accounts[0] first
    checkConn,        \* the checkConnection call of the mount effect
    connect           \* the handleConnect call in flight, if any

\* The state of the CTIFeed component.
VARIABLES
    ctiList,          \* useState([]): the items shown, in list order
    loading,          \* useState(true): CTIFeed's loading
    voting,           \* useState({}): voting[ctiId], undefined read as false
    loads,            \* the loadCTIFeed calls: 0 the mount effect's, id the one handleVote(id) awaits
    votes,            \* the handleVote calls, by ctiId
    started,          \* number of loadCTIFeed calls started so far
    shown,            \* which of them (1 = first started) made ctiList; 0 for the initial []
    allOk             \* no read of any loadCTIFeed call has failed so far

\* App's own hooks, the wallet and App's pending calls.
app == <<account, isConnected, appLoading, activeTab, wallet, checkConn, connect>>

\* CTIFeed's hooks and pending calls.
feed == <<ctiList, loading, voting, loads, votes, started, shown, allOk>>

\* The component state: what the contract's functions never touch.
ui == <<app, feed>>

vars == <<ctiCounter, ctiRecords, hasVoted, userSubmissions, events, now,
          lastOp, okSubmits, okVotes, ui>>

\* The contract's storage and log: what a reverted or read-only call must not change.
registry == <<ctiCounter, ctiRecords, hasVoted, userSubmissions, events>>

\* No revert.
OK == "ok"

\* The client has no call outstanding: it has read the outcome of its latest one.
Idle == [call |-> [op |-> "none"], err |-> OK, ret |-> <<>>]

\* The zero-initialised CTI struct every unwritten mapping slot reads as.
EmptyCTI ==
    [id |-> 0, submitter |-> ZeroAddr, ipfsHash |-> "", category |-> "",
     title |-> "", timestamp |-> 0, upvotes |-> 0, downvotes |-> 0,
     isActive |-> FALSE]

\* useState('') : no address.
NoAccount == ""

\* The account lists the wallet can expose: none (locked or not permitted),
\* or one of the identities.
Wallets == {<<>>, <<"Y">>, <<"Z">>}

\* The loadCTIFeed calls: the mount effect's and one per handleVote(ctiId).
LoadKeys == 0..MaxCti

\* What a loadCTIFeed call holds for one id of its ctiIds: how far the id's
\* promise has got and the answers it has received.
NoItem == [stage |-> "none", cti |-> EmptyCTI, score |-> 0, hasVoted |-> FALSE]

NoLoad == [pc |-> "idle", seq |-> 0, ids |-> <<>>, item |-> [i \in Ids |-> NoItem]]

NoVote == [pc |-> "idle", isUpvote |-> FALSE]

\* CTIFeed is not rendered: its hooks hold their initial values and none of
\* its calls is pending.
FeedUnmounted ==
    /\ ctiList = <<>>
    /\ loading = TRUE
    /\ voting = [i \in Ids |-> FALSE]
    /\ loads = [k \in LoadKeys |-> NoLoad]
    /\ votes = [i \in Ids |-> NoVote]
    /\ started = 0
    /\ shown = 0
    /\ allOk = TRUE

\* The page as the browser has just loaded it with the wallet exposing w:
\* every hook at its initial value, the mount effect has called
\* checkConnection, whose eth_accounts request is pending.
UiStart(w) ==
    /\ account = NoAccount
    /\ isConnected = FALSE
    /\ appLoading = FALSE
    /\ activeTab = "feed"
    /\ wallet = w
    /\ checkConn = [pc |-> "request", accounts |-> <<>>]
    /\ connect = [pc |-> "idle", account |-> NoAccount]
    /\ FeedUnmounted

\* Variant: the counter is declared with the initial value 1.
InitCounterOne ==
    /\ UiStart(<<>>)
    /\ ctiCounter = 1
    /\ ctiRecords = [i \in Ids |-> EmptyCTI]
    /\ hasVoted = [i \in Ids |-> [a \in Addr |-> FALSE]]
    /\ userSubmissions = [a \in Addr |-> 0]
    /\ events = <<>>
    /\ now = 0
    /\ lastOp = Idle
    /\ okSubmits = 0
    /\ okVotes = {}

\* The contract after deployment: every storage slot zero, the log empty.
Init ==
    /\ UiStart(<<>>)
    /\ ctiCounter = 0
    /\ ctiRecords = [i \in Ids |-> EmptyCTI]
    /\ hasVoted = [i \in Ids |-> [a \in Addr |-> FALSE]]
    /\ userSubmissions = [a \in Addr |-> 0]
    /\ events = <<>>
    /\ now = 0
    /\ lastOp = Idle
    /\ okSubmits = 0
    /\ okVotes = {}

\* ------------------------------------------------------------- submitCTI

\* Variant: the title check is missing.
SubmitRequireNoTitle(h, c, t) ==
    IF h = "" THEN "IPFS hash cannot be empty"
    ELSE IF c = "" THEN "Category cannot be empty"
    ELSE OK

\* The three require statements of submitCTI, in order: the revert string of
\* the first that fails, or OK.
SubmitRequire(h, c, t) ==
    IF h = "" THEN "IPFS hash cannot be empty"
    ELSE IF c = "" THEN "Category cannot be empty"
    ELSE IF t = "" THEN "Title cannot be empty"
    ELSE OK

\* Variant: the counter is read but not incremented.
NextCounterStale(counter) == counter

\* ctiCounter++ : the id the new record gets.
NextCounter(counter) == counter + 1

\* Variant: the stamp is the time left until MaxTime instead of the time.
NewCTICountdown(newId, sender, h, c, t, ts) ==
    [id |-> newId, submitter |-> sender, ipfsHash |-> h, category |-> c,
     title |-> t, timestamp |-> MaxTime - ts, upvotes |-> 0, downvotes |-> 0,
     isActive |-> TRUE]

\* Variant: isActive is left out of the struct literal and keeps its default.
NewCTIInactive(newId, sender, h, c, t, ts) ==
    [id |-> newId, submitter |-> sender, ipfsHash |-> h, category |-> c,
     title |-> t, timestamp |-> ts, upvotes |-> 0, downvotes |-> 0,
     isActive |-> FALSE]

\* Variant: the id field is taken from the counter before its increment.
NewCTIStaleId(newId, sender, h, c, t, ts) ==
    [id |-> newId - 1, submitter |-> sender, ipfsHash |-> h, category |-> c,
     title |-> t, timestamp |-> ts, upvotes |-> 0, downvotes |-> 0,
     isActive |-> TRUE]

\* Variant: category and title are stored in each other's field.
NewCTISwapped(newId, sender, h, c, t, ts) ==
    [id |-> newId, submitter |-> sender, ipfsHash |-> h, category |-> t,
     title |-> c, timestamp |-> ts, upvotes |-> 0, downvotes |-> 0,
     isActive |-> TRUE]

\* The CTI struct literal stored at ctiRecords[ctiCounter].
NewCTI(newId, sender, h, c, t, ts) ==
    [id |-> newId, submitter |-> sender, ipfsHash |-> h, category |-> c,
     title |-> t, timestamp |-> ts, upvotes |-> 0, downvotes |-> 0,
     isActive |-> TRUE]

\* Variant: the caller's counter is set to 1, as a flag would be.
BumpSubmissionsFlag(subs, sender) == [subs EXCEPT ![sender] = 1]

\* Variant: the caller's counter is set to the new id instead of incremented.
BumpSubmissionsSet(subs, sender) == [subs EXCEPT ![sender] = ctiCounter + 1]

\* userSubmissions[msg.sender]++
BumpSubmissions(subs, sender) == [subs EXCEPT ![sender] = @ + 1]

\* Variant: the event is emitted with the counter's value before the increment.
CTISubmittedStaleId(newId, sender, h, c, t) ==
    [name |-> "CTISubmitted", id |-> newId - 1, submitter |-> sender,
     ipfsHash |-> h, category |-> c, title |-> t]

\* emit CTISubmitted(ctiCounter, msg.sender, _ipfsHash, _category, _title)
CTISubmitted(newId, sender, h, c, t) ==
    [name |-> "CTISubmitted", id |-> newId, submitter |-> sender,
     ipfsHash |-> h, category |-> c, title |-> t]

\* The return data of submitCTI: the function declares no return value.
SubmitReturn(newId) == <<>>

\* Variant: the counter is incremented before the checks and a failing check
\* reports its error without undoing the increment.
submitCTIOrphanId(sender, h, c, t) ==
    LET call == [op |-> "submitCTI", sender |-> sender, ipfsHash |-> h,
                 category |-> c, title |-> t]
        err == SubmitRequire(h, c, t)
        newId == NextCounter(ctiCounter)
    IN  \/ /\ lastOp = Idle
           /\ err # OK
           /\ ctiCounter < MaxCti
           /\ ctiCounter' = newId
           /\ lastOp' = [call |-> call, err |-> err, ret |-> <<>>]
           /\ UNCHANGED <<ctiRecords, hasVoted, userSubmissions, events, now,
                          okSubmits, okVotes, ui>>
        \/ /\ lastOp = Idle
           /\ err = OK
           /\ ctiCounter < MaxCti
           /\ ctiCounter' = newId
           /\ ctiRecords' = [ctiRecords EXCEPT
                               ![newId] = NewCTI(newId, sender, h, c, t, now)]
           /\ userSubmissions' = BumpSubmissions(userSubmissions, sender)
           /\ events' = Append(events, CTISubmitted(newId, sender, h, c, t))
           /\ lastOp' = [call |-> call, err |-> OK, ret |-> SubmitReturn(newId)]
           /\ okSubmits' = okSubmits + 1
           /\ UNCHANGED <<hasVoted, now, okVotes, ui>>

submitCTI(sender, h, c, t) ==
    LET call == [op |-> "submitCTI", sender |-> sender, ipfsHash |-> h,
                 category |-> c, title |-> t]
        err == SubmitRequire(h, c, t)
        newId == NextCounter(ctiCounter)
    IN  \/ /\ lastOp = Idle
           /\ err # OK
           /\ lastOp' = [call |-> call, err |-> err, ret |-> <<>>]
           /\ UNCHANGED <<registry, now, okSubmits, okVotes, ui>>
        \/ /\ lastOp = Idle
           /\ err = OK
           /\ ctiCounter < MaxCti
           /\ ctiCounter' = newId
           /\ ctiRecords' = [ctiRecords EXCEPT
                               ![newId] = NewCTI(newId, sender, h, c, t, now)]
           /\ userSubmissions' = BumpSubmissions(userSubmissions, sender)
           /\ events' = Append(events, CTISubmitted(newId, sender, h, c, t))
           /\ lastOp' = [call |-> call, err |-> OK, ret |-> SubmitReturn(newId)]
           /\ okSubmits' = okSubmits + 1
           /\ UNCHANGED <<hasVoted, now, okVotes, ui>>

\* ---------------------------------------------------------------- voteCTI

\* Variant: the isActive require is missing.
validCTINoActive(id) ==
    IF ~(id > 0 /\ id <= ctiCounter) THEN "CTI does not exist" ELSE OK

\* modifier validCTI(_id)
validCTI(id) ==
    IF ~(id > 0 /\ id <= ctiCounter) THEN "CTI does not exist"
    ELSE IF ~ctiRecords[id].isActive THEN "CTI is not active"
    ELSE OK

\* Variant: the modifier checks nothing.
hasNotVotedOff(id, sender) == OK

\* modifier hasNotVoted(_id)
hasNotVoted(id, sender) ==
    IF hasVoted[id][sender] THEN "Already voted on this CTI" ELSE OK

\* Variant: the require is missing.
NotOwnSubmissionOff(id, sender) == OK

\* The require in the body of voteCTI.
NotOwnSubmission(id, sender) ==
    IF ctiRecords[id].submitter = sender THEN "Cannot vote on own submission"
    ELSE OK

\* Variant: the duplicate check is decided on a copy of the marks read before
\* the sender's earlier vote was applied, so it never fails.
VoteRequireStaleMarks(id, sender) ==
    IF validCTI(id) # OK THEN validCTI(id)
    ELSE NotOwnSubmission(id, sender)

\* Variant: the own-submission require runs before the hasNotVoted modifier.
VoteRequireSelfFirst(id, sender) ==
    IF validCTI(id) # OK THEN validCTI(id)
    ELSE IF NotOwnSubmission(id, sender) # OK THEN NotOwnSubmission(id, sender)
    ELSE hasNotVoted(id, sender)

\* The checks of voteCTI in the order the modifiers and the body run them.
VoteRequire(id, sender) ==
    IF validCTI(id) # OK THEN validCTI(id)
    ELSE IF hasNotVoted(id, sender) # OK THEN hasNotVoted(id, sender)
    ELSE NotOwnSubmission(id, sender)

\* Variant: the assignment is missing.
MarkVotedNothing(voted, id, sender) == voted

\* Variant: the mark is keyed by the sender alone and set for every id.
MarkVotedEverywhere(voted, id, sender) ==
    [i \in Ids |-> [voted[i] EXCEPT ![sender] = TRUE]]

\* Variant: the mark replaces the marks of the other voters of the record.
MarkVotedOverwrite(voted, id, sender) ==
    [voted EXCEPT ![id] = [a \in Addr |-> a = sender]]

\* Variant: the mark is put on the record's submitter.
MarkVotedSubmitter(voted, id, sender) ==
    [voted EXCEPT ![id][ctiRecords[id].submitter] = TRUE]

\* hasVoted[_id][msg.sender] = true
MarkVoted(voted, id, sender) == [voted EXCEPT ![id][sender] = TRUE]

\* Variant: the vote also stamps the record with the time of the vote.
TallyRestamp(rec, isUpvote) ==
    IF isUpvote THEN [rec EXCEPT !.upvotes = @ + 1, !.timestamp = now]
    ELSE [rec EXCEPT !.downvotes = @ + 1, !.timestamp = now]

\* Variant: a vote also clears the tally of the other direction.
TallyLastWins(rec, isUpvote) ==
    IF isUpvote THEN [rec EXCEPT !.upvotes = @ + 1, !.downvotes = 0]
    ELSE [rec EXCEPT !.downvotes = @ + 1, !.upvotes = 0]

\* Variant: the two branches are exchanged.
TallySwapped(rec, isUpvote) ==
    IF isUpvote THEN [rec EXCEPT !.downvotes = @ + 1]
    ELSE [rec EXCEPT !.upvotes = @ + 1]

\* Variant: a downvote takes back an upvote when there is one.
TallyNet(rec, isUpvote) ==
    IF isUpvote THEN [rec EXCEPT !.upvotes = @ + 1]
    ELSE IF rec.upvotes > 0 THEN [rec EXCEPT !.upvotes = @ - 1]
    ELSE [rec EXCEPT !.downvotes = @ + 1]

\* if (_isUpvote) upvotes++ else downvotes++
Tally(rec, isUpvote) ==
    IF isUpvote THEN [rec EXCEPT !.upvotes = @ + 1]
    ELSE [rec EXCEPT !.downvotes = @ + 1]

\* Variant: the event always reports an upvote.
CTIVotedUpOnly(id, sender, isUpvote) ==
    [name |-> "CTIVoted", id |-> id, validator |-> sender, isUpvote |-> TRUE]

\* emit CTIVoted(_id, msg.sender, _isUpvote)
CTIVoted(id, sender, isUpvote) ==
    [name |-> "CTIVoted", id |-> id, validator |-> sender, isUpvote |-> isUpvote]

\* Number of CTIVoted events in the log.
VotesCast == Cardinality({k \in DOMAIN events : events[k].name = "CTIVoted"})

voteCTI(sender, id, isUpvote) ==
    LET call == [op |-> "voteCTI", sender |-> sender, id |-> id,
                 isUpvote |-> isUpvote]
        err == VoteRequire(id, sender)
    IN  \/ /\ lastOp = Idle
           /\ err # OK
           /\ lastOp' = [call |-> call, err |-> err, ret |-> <<>>]
           /\ UNCHANGED <<registry, now, okSubmits, okVotes, ui>>
        \/ /\ lastOp = Idle
           /\ err = OK
           /\ VotesCast < MaxVotes
           /\ hasVoted' = MarkVoted(hasVoted, id, sender)
           /\ ctiRecords' = [ctiRecords EXCEPT ![id] = Tally(@, isUpvote)]
           /\ events' = Append(events, CTIVoted(id, sender, isUpvote))
           /\ lastOp' = [call |-> call, err |-> OK, ret |-> <<>>]
           /\ okVotes' = okVotes \cup {<<id, sender>>}
           /\ UNCHANGED <<ctiCounter, userSubmissions, now, okSubmits, ui>>

\* voteCTI as a function of the storage it runs on: st holds the records, the
\* marks and the log; the result is the revert string (or OK) and the storage
\* the transaction leaves, which is st itself when it reverts.
VoteRequireOn(st, id, sender) ==
    IF ~(id > 0 /\ id <= ctiCounter) THEN "CTI does not exist"
    ELSE IF ~st.recs[id].isActive THEN "CTI is not active"
    ELSE IF st.voted[id][sender] THEN "Already voted on this CTI"
    ELSE IF st.recs[id].submitter = sender THEN "Cannot vote on own submission"
    ELSE OK

VoteOn(st, sender, id, isUpvote) ==
    LET err == VoteRequireOn(st, id, sender)
    IN  IF err # OK THEN <<err, st>>
        ELSE <<OK,
               [recs |-> [st.recs EXCEPT ![id] = Tally(@, isUpvote)],
                voted |-> MarkVoted(st.voted, id, sender),
                log |-> Append(st.log, CTIVoted(id, sender, isUpvote))]>>

\* The storage voteCTI reads and writes, as it is now.
VoteStore == [recs |-> ctiRecords, voted |-> hasVoted, log |-> events]

\* ------------------------------------------------------------------ views

\* Variant: the function is not a view and logs each call it answers.
ViewLogged(call, err, ret) ==
    /\ lastOp = Idle
    /\ lastOp' = [call |-> call, err |-> err, ret |-> IF err = OK THEN ret ELSE <<>>]
    /\ events' = IF err = OK THEN Append(events, [name |-> "Read", id |-> 0])
                 ELSE events
    /\ UNCHANGED <<ctiCounter, ctiRecords, hasVoted, userSubmissions, now,
                   okSubmits, okVotes, ui>>

\* A view call: storage, log and clock stay; only the caller sees the outcome.
View(call, err, ret) ==
    /\ lastOp = Idle
    /\ lastOp' = [call |-> call, err |-> err, ret |-> IF err = OK THEN ret ELSE <<>>]
    /\ UNCHANGED <<registry, now, okSubmits, okVotes, ui>>

\* return ctiRecords[_id]
GetCTIReturn(id) == <<ctiRecords[id]>>

getCTI(id) ==
    View([op |-> "getCTI", id |-> id], validCTI(id), GetCTIReturn(id))

\* Variant: the difference is taken unsigned and stops at 0.
ScoreUnsigned(rec) ==
    IF rec.upvotes >= rec.downvotes THEN rec.upvotes - rec.downvotes ELSE 0

\* int256(cti.upvotes) - int256(cti.downvotes)
Score(rec) == rec.upvotes - rec.downvotes

getCTIScore(id) ==
    View([op |-> "getCTIScore", id |-> id], validCTI(id), <<Score(ctiRecords[id])>>)

\* Variant: the function carries the validCTI modifier.
hasUserVotedValid(id, user) ==
    View([op |-> "hasUserVoted", id |-> id, user |-> user], validCTI(id),
         <<hasVoted[id][user]>>)

\* return hasVoted[_id][_user]
hasUserVoted(id, user) ==
    View([op |-> "hasUserVoted", id |-> id, user |-> user], OK, <<hasVoted[id][user]>>)

\* Variant: the loop counts every record, active or not.
RECURSIVE CountAllFrom(_)
CountAllFrom(i) ==
    IF i <= ctiCounter THEN 1 + CountAllFrom(i + 1) ELSE 0

\* The counting loop of getActiveCTICount, from i up to ctiCounter.
RECURSIVE CountActiveFrom(_)
CountActiveFrom(i) ==
    IF i <= ctiCounter
    THEN (IF ctiRecords[i].isActive THEN 1 ELSE 0) + CountActiveFrom(i + 1)
    ELSE 0

ActiveCTICount == CountActiveFrom(1)

getActiveCTICount ==
    View([op |-> "getActiveCTICount"], OK, <<ActiveCTICount>>)

\* Upper limit of _limit in getActiveCTIs.
MaxLimit == 100

\* Variant: the upper comparison is strict.
LimitRequireStrict(limit) ==
    IF limit > 0 /\ limit < MaxLimit THEN OK ELSE "Invalid limit"

\* require(_limit > 0 && _limit <= 100, "Invalid limit")
LimitRequire(limit) ==
    IF limit > 0 /\ limit <= MaxLimit THEN OK ELSE "Invalid limit"

\* Variant: the isActive test is missing.
RECURSIVE ScanActiveAll(_, _, _, _, _)
ScanActiveAll(i, acc, currentOffset, limit, offset) ==
    IF i > 0 /\ Len(acc) < limit
    THEN ScanActiveAll(i - 1,
                       IF currentOffset >= offset THEN Append(acc, i) ELSE acc,
                       currentOffset + 1, limit, offset)
    ELSE acc

\* Variant: the offset test is currentOffset + 1 >= _offset.
RECURSIVE ScanActiveEarly(_, _, _, _, _)
ScanActiveEarly(i, acc, currentOffset, limit, offset) ==
    IF i > 0 /\ Len(acc) < limit
    THEN IF ctiRecords[i].isActive
         THEN ScanActiveEarly(i - 1,
                              IF currentOffset + 1 >= offset
                              THEN Append(acc, i) ELSE acc,
                              currentOffset + 1, limit, offset)
         ELSE ScanActiveEarly(i - 1, acc, currentOffset, limit, offset)
    ELSE acc

\* Variant: the offset test is currentOffset > _offset.
RECURSIVE ScanActiveLate(_, _, _, _, _)
ScanActiveLate(i, acc, currentOffset, limit, offset) ==
    IF i > 0 /\ Len(acc) < limit
    THEN IF ctiRecords[i].isActive
         THEN ScanActiveLate(i - 1,
                             IF currentOffset > offset THEN Append(acc, i) ELSE acc,
                             currentOffset + 1, limit, offset)
         ELSE ScanActiveLate(i - 1, acc, currentOffset, limit, offset)
    ELSE acc

\* Variant: currentOffset++ stands outside the isActive test, so an inactive
\* record uses up offset.
RECURSIVE ScanActiveCountsAll(_, _, _, _, _)
ScanActiveCountsAll(i, acc, currentOffset, limit, offset) ==
    IF i > 0 /\ Len(acc) < limit
    THEN ScanActiveCountsAll(i - 1,
                             IF ctiRecords[i].isActive /\ currentOffset >= offset
                             THEN Append(acc, i) ELSE acc,
                             currentOffset + 1, limit, offset)
    ELSE acc

\* The backwards loop of getActiveCTIs from index i: acc holds activeCTIs[0..count-1].
RECURSIVE ScanActive(_, _, _, _, _)
ScanActive(i, acc, currentOffset, limit, offset) ==
    IF i > 0 /\ Len(acc) < limit
    THEN IF ctiRecords[i].isActive
         THEN ScanActive(i - 1,
                         IF currentOffset >= offset THEN Append(acc, i) ELSE acc,
                         currentOffset + 1, limit, offset)
         ELSE ScanActive(i - 1, acc, currentOffset, limit, offset)
    ELSE acc

\* Variant: the loop runs down to index 1 whatever count is; count < _limit
\* guards the store only.
RECURSIVE ScanTraceNoStop(_, _, _, _, _, _)
ScanTraceNoStop(i, acc, visited, currentOffset, limit, offset) ==
    IF i > 0
    THEN IF ctiRecords[i].isActive
         THEN ScanTraceNoStop(i - 1,
                              IF currentOffset >= offset /\ Len(acc) < limit
                              THEN Append(acc, i) ELSE acc,
                              Append(visited, i),
                              currentOffset + 1, limit, offset)
         ELSE ScanTraceNoStop(i - 1, acc, Append(visited, i), currentOffset,
                              limit, offset)
    ELSE <<acc, visited>>

\* The same loop with the values i takes while its body runs: the pair of
\* activeCTIs[0..count-1] and the indexes visited, in order.
RECURSIVE ScanTrace(_, _, _, _, _, _)
ScanTrace(i, acc, visited, currentOffset, limit, offset) ==
    IF i > 0 /\ Len(acc) < limit
    THEN IF ctiRecords[i].isActive
         THEN ScanTrace(i - 1,
                        IF currentOffset >= offset THEN Append(acc, i) ELSE acc,
                        Append(visited, i),
                        currentOffset + 1, limit, offset)
         ELSE ScanTrace(i - 1, acc, Append(visited, i), currentOffset,
                        limit, offset)
    ELSE <<acc, visited>>

ActiveTrace(limit, offset) ==
    ScanTrace(ctiCounter, <<>>, <<>>, 0, limit, offset)

ActiveCTIs(limit, offset) == ScanActive(ctiCounter, <<>>, 0, limit, offset)

\* _limit and _offset values offered to getActiveCTIs.
Limits == {0, 1, 2, MaxLimit, MaxLimit + 1}
Offsets == 0..MaxCti

getActiveCTIs(limit, offset) ==
    View([op |-> "getActiveCTIs", limit |-> limit, offset |-> offset],
         LimitRequire(limit), <<ActiveCTIs(limit, offset)>>)

\* ------------------------------------------------------------ environment

\* A new block is mined: block.timestamp does not go back.
Tick ==
    /\ lastOp = Idle
    /\ now < MaxTime
    /\ now' = now + 1
    /\ UNCHANGED <<registry, lastOp, okSubmits, okVotes, ui>>

\* The client reads the outcome of its call (the awaited transaction or view
\* result) and is free to make the next one.
Return ==
    /\ lastOp # Idle
    /\ lastOp' = Idle
    /\ UNCHANGED <<registry, now, okSubmits, okVotes, ui>>

Next ==
    \/ \E sender \in Addr, args \in SubmitArgs :
          submitCTI(sender, args[1], args[2], args[3])
    \/ \E sender \in Addr, id \in Ids, isUpvote \in BOOLEAN :
          voteCTI(sender, id, isUpvote)
    \/ \E id \in Ids : getCTI(id)
    \/ \E id \in Ids : getCTIScore(id)
    \/ \E id \in Ids, user \in Addr : hasUserVoted(id, user)
    \/ getActiveCTICount
    \/ \E limit \in Limits, offset \in Offsets : getActiveCTIs(limit, offset)
    \/ Return
    \/ Tick

Spec == Init /\ [][Next]_vars

\* ------------------------------------------------- the views on any storage

\* The views and the checks of voteCTI are functions of the storage they are
\* handed.  StoreInit draws that storage from the contents the mappings can
\* hold with the ids kept dense: 0 to MaxCti + 1 records submitted by "X",
\* each with either value of isActive (the flag the struct reserves for a
\* deactivation; no function of the contract clears it), and any set of
\* identities, the submitter included, marked as having upvoted record 1.

\* The identities of a set, in one fixed order.
RECURSIVE SeqOf(_)
SeqOf(S) ==
    IF S = {} THEN <<>>
    ELSE LET a == CHOOSE x \in S : TRUE IN <<a>> \o SeqOf(S \ {a})

StoreInit ==
    \E c \in Ids, voters \in SUBSET Addr, active \in [Ids -> BOOLEAN] :
        /\ \A i \in Ids : i \notin 1..c => ~active[i]
        /\ c = 0 => voters = {}
        /\ ctiCounter = c
        /\ ctiRecords =
              [i \in Ids |->
                 IF i \in 1..c
                 THEN [NewCTI(i, "X", "Qm1", "Malware", "T1", 0) EXCEPT
                          !.isActive = active[i],
                          !.upvotes = IF i = 1 THEN Cardinality(voters) ELSE 0]
                 ELSE EmptyCTI]
        /\ hasVoted = [i \in Ids |-> [a \in Addr |-> i = 1 /\ a \in voters]]
        /\ userSubmissions = [a \in Addr |-> IF a = "X" THEN c ELSE 0]
        /\ events =
              [i \in 1..c |-> CTISubmitted(i, "X", "Qm1", "Malware", "T1")]
              \o [k \in 1..Cardinality(voters) |->
                    CTIVoted(1, SeqOf(voters)[k], TRUE)]
        /\ now = 0
        /\ lastOp = Idle
        /\ okSubmits = c
        /\ okVotes = {<<1, a>> : a \in voters}
        /\ UiStart(<<>>)

StoreNext ==
    \/ \E sender \in Addr, id \in Ids, isUpvote \in BOOLEAN :
          voteCTI(sender, id, isUpvote)
    \/ \E id \in Ids : getCTI(id)
    \/ \E id \in Ids : getCTIScore(id)
    \/ \E id \in Ids, user \in Addr : hasUserVoted(id, user)
    \/ getActiveCTICount
    \/ \E limit \in Limits, offset \in Offsets : getActiveCTIs(limit, offset)
    \/ Return

SpecStore == StoreInit /\ [][StoreNext]_vars

\* ---------------------------------------------------------- App component

\* What an App step leaves alone: the contract and its caller-side record.
chain == <<registry, now, lastOp, okSubmits, okVotes>>

\* checkConnection: the eth_accounts request of the mount effect is answered
\* with the accounts the wallet exposes at that moment.
checkConnectionResolve ==
    /\ checkConn.pc = "request"
    /\ checkConn' = [pc |-> "resolved", accounts |-> wallet]
    /\ UNCHANGED <<chain, feed, account, isConnected, appLoading, activeTab, wallet,
                   connect>>

\* checkConnection after its await: if (accounts.length > 0) { setAccount(
\* accounts[0]); setIsConnected(true) }.
checkConnectionContinue ==
    /\ checkConn.pc = "resolved"
    /\ checkConn' = [pc |-> "done", accounts |-> <<>>]
    /\ IF Len(checkConn.accounts) > 0
       THEN account' = checkConn.accounts[1] /\ isConnected' = TRUE
       ELSE UNCHANGED <<account, isConnected>>
    /\ UNCHANGED <<chain, feed, appLoading, activeTab, wallet, connect>>

\* checkConnection when window.ethereum is missing or the request throws:
\* the catch logs the error.
checkConnectionFail ==
    /\ checkConn.pc = "request"
    /\ checkConn' = [pc |-> "done", accounts |-> <<>>]
    /\ UNCHANGED <<chain, feed, account, isConnected, appLoading, activeTab, wallet,
                   connect>>

\* A click on a connect button (Header or WalletConnection: rendered while
\* not connected, disabled while loading): handleConnect up to its await.
handleConnect ==
    /\ ~isConnected
    /\ ~appLoading
    /\ connect.pc = "idle"
    /\ appLoading' = TRUE
    /\ connect' = [pc |-> "request", account |-> NoAccount]
    /\ UNCHANGED <<chain, feed, account, isConnected, activeTab, wallet, checkConn>>

\* connectWallet: the user grants eth_requestAccounts; the wallet exposes the
\* granted accounts and the call keeps accounts[0].
connectWalletGranted(accounts) ==
    /\ connect.pc = "request"
    /\ Len(accounts) > 0
    /\ wallet' = accounts
    /\ connect' = [pc |-> "switch", account |-> accounts[1]]
    /\ UNCHANGED <<chain, feed, account, isConnected, appLoading, activeTab, checkConn>>

\* connectWallet: switchToSepolia returns.
connectWalletSwitched ==
    /\ connect.pc = "switch"
    /\ connect' = [connect EXCEPT !.pc = "resolved"]
    /\ UNCHANGED <<chain, feed, account, isConnected, appLoading, activeTab, wallet,
                   checkConn>>

\* handleConnect after its await: setAccount(account); setIsConnected(true);
\* finally setLoading(false).
handleConnectContinue ==
    /\ connect.pc = "resolved"
    /\ account' = connect.account
    /\ isConnected' = TRUE
    /\ appLoading' = FALSE
    /\ connect' = [pc |-> "idle", account |-> NoAccount]
    /\ UNCHANGED <<chain, feed, activeTab, wallet, checkConn>>

\* connectWallet throws (no MetaMask, the user refuses the request or the
\* network switch): catch alerts, finally setLoading(false).
handleConnectFail ==
    /\ connect.pc \in {"request", "switch"}
    /\ appLoading' = FALSE
    /\ connect' = [pc |-> "idle", account |-> NoAccount]
    /\ UNCHANGED <<chain, feed, account, isConnected, activeTab, wallet, checkConn>>

\* Variant: setIsConnected(false) is missing.
handleDisconnectAccountOnly ==
    /\ isConnected
    /\ account' = NoAccount
    /\ UNCHANGED <<chain, feed, isConnected, appLoading, activeTab, wallet, checkConn,
                   connect>>

\* A click on Disconnect (rendered while connected): setAccount('');
\* setIsConnected(false).
handleDisconnect ==
    /\ isConnected
    /\ account' = NoAccount
    /\ isConnected' = FALSE
    /\ UNCHANGED <<chain, feed, appLoading, activeTab, wallet, checkConn, connect>>

\* The wallet changes the accounts it exposes and emits accountsChanged:
\* handleAccountsChanged(accounts).
handleAccountsChanged(accounts) ==
    /\ accounts # wallet
    /\ wallet' = accounts
    /\ IF Len(accounts) = 0
       THEN account' = NoAccount /\ isConnected' = FALSE
       ELSE account' = accounts[1] /\ isConnected' = TRUE
    /\ UNCHANGED <<chain, feed, appLoading, activeTab, checkConn, connect>>

\* A click on a tab button (rendered while connected): setActiveTab(tab).
setActiveTab(tab) ==
    /\ isConnected
    /\ tab # activeTab
    /\ activeTab' = tab
    /\ UNCHANGED <<chain, feed, account, isConnected, appLoading, wallet, checkConn,
                   connect>>

\* chainChanged: window.location.reload() discards the page and its pending
\* calls and mounts the App anew.
handleChainChanged ==
    /\ account' = NoAccount
    /\ isConnected' = FALSE
    /\ appLoading' = FALSE
    /\ activeTab' = "feed"
    /\ checkConn' = [pc |-> "request", accounts |-> <<>>]
    /\ connect' = [pc |-> "idle", account |-> NoAccount]
    /\ UNCHANGED <<chain, feed, wallet>>

\* The components App renders below the header.
Rendered ==
    IF ~isConnected THEN {"WalletConnection"}
    ELSE IF activeTab = "feed" THEN {"CTIFeed"}
    ELSE IF activeTab = "submit" THEN {"CTISubmission"}
    ELSE {}

AppInit ==
    \E w \in Wallets :
        /\ UiStart(w)
        /\ ctiCounter = 0
        /\ ctiRecords = [i \in Ids |-> EmptyCTI]
        /\ hasVoted = [i \in Ids |-> [a \in Addr |-> FALSE]]
        /\ userSubmissions = [a \in Addr |-> 0]
        /\ events = <<>>
        /\ now = 0
        /\ lastOp = Idle
        /\ okSubmits = 0
        /\ okVotes = {}

AppNext ==
    \/ checkConnectionResolve
    \/ checkConnectionContinue
    \/ checkConnectionFail
    \/ handleConnect
    \/ \E accounts \in Wallets : connectWalletGranted(accounts)
    \/ connectWalletSwitched
    \/ handleConnectContinue
    \/ handleConnectFail
    \/ handleDisconnect
    \/ \E accounts \in Wallets : handleAccountsChanged(accounts)
    \/ \E tab \in {"feed", "submit"} : setActiveTab(tab)
    \/ handleChainChanged

SpecApp == AppInit /\ [][AppNext]_vars

\* ------------------------------------------------------ CTIFeed component

\* getActiveCTIs(20, 0) as loadCTIFeed calls it.
FeedLimit == 20
FeedOffset == 0

\* The records a feed can vote on.
FeedIds == 1..MaxCti

\* The ids of a ctiIds list.
IdsOf(ids) == {ids[n] : n \in DOMAIN ids}

\* The object a ctiPromise returns for one id: the fields of the getCTI
\* answer, the getCTIScore answer and the hasUserVoted answer.
FeedItem(it) ==
    [id |-> it.cti.id, submitter |-> it.cti.submitter,
     ipfsHash |-> it.cti.ipfsHash, category |-> it.cti.category,
     title |-> it.cti.title, timestamp |-> it.cti.timestamp,
     upvotes |-> it.cti.upvotes, downvotes |-> it.cti.downvotes,
     score |-> it.score, hasVoted |-> it.hasVoted]

\* (await Promise.all(ctiPromises)).filter(Boolean): the items of the ids
\* whose promise returned an object, in the order of ctiIds.
CtiData(ld) ==
    LET kept == SelectSeq(ld.ids, LAMBDA i : ld.item[i].stage = "done")
    IN  [n \in 1..Len(kept) |-> FeedItem(ld.item[kept[n]])]

\* The disabled attribute of both vote buttons of an item.
Disabled(cti) ==
    voting[cti.id] \/ cti.hasVoted \/ cti.submitter = account

\* The items the list shows with their vote buttons; none while the spinner
\* replaces the list.
ShownItems == IF loading THEN {} ELSE {ctiList[n] : n \in DOMAIN ctiList}

\* loadCTIFeed from its call to its first await, as the caller key runs it:
\* setLoading(true), then getActiveCTIs(20, 0) is requested.
LoadStarted(key) ==
    /\ loading' = TRUE
    /\ started' = started + 1
    /\ loads' = [loads EXCEPT ![key] =
                    [pc |-> "ids", seq |-> started + 1, ids |-> <<>>,
                     item |-> [i \in Ids |-> NoItem]]]

\* The finally of handleVote(key), which runs as soon as the loadCTIFeed call
\* it awaits has returned; the mount effect's call (key 0) has no caller
\* waiting.
AfterLoad(key) ==
    IF key \in FeedIds /\ votes[key].pc = "reload"
    THEN /\ voting' = [voting EXCEPT ![key] = FALSE]
         /\ votes' = [votes EXCEPT ![key] = NoVote]
    ELSE UNCHANGED <<voting, votes>>

\* await contract.getActiveCTIs(20, 0) is answered; one promise per id
\* starts with its getCTI request.
getActiveCTIsResolve(key) ==
    /\ loads[key].pc = "ids"
    /\ LimitRequire(FeedLimit) = OK
    /\ LET ids == ActiveCTIs(FeedLimit, FeedOffset)
       IN  loads' = [loads EXCEPT ![key].pc = "items", ![key].ids = ids,
                        ![key].item = [i \in Ids |->
                            IF i \in IdsOf(ids)
                            THEN [NoItem EXCEPT !.stage = "cti"] ELSE NoItem]]
    /\ UNCHANGED <<chain, app, ctiList, loading, voting, votes, started, shown,
                   allOk>>

\* getReadOnlyContract() throws or the getActiveCTIs request fails: the outer
\* catch logs, finally setLoading(false).
getActiveCTIsReject(key) ==
    /\ loads[key].pc = "ids"
    /\ loading' = FALSE
    /\ loads' = [loads EXCEPT ![key] = NoLoad]
    /\ allOk' = FALSE
    /\ AfterLoad(key)
    /\ UNCHANGED <<chain, app, ctiList, started, shown>>

\* const cti = await contract.getCTI(id)
feedGetCTI(key, id) ==
    /\ loads[key].pc = "items"
    /\ loads[key].item[id].stage = "cti"
    /\ validCTI(id) = OK
    /\ loads' = [loads EXCEPT ![key].item[id].stage = "score",
                              ![key].item[id].cti = GetCTIReturn(id)[1]]
    /\ UNCHANGED <<chain, app, ctiList, loading, voting, votes, started, shown,
                   allOk>>

\* const score = await contract.getCTIScore(id)
feedGetCTIScore(key, id) ==
    /\ loads[key].pc = "items"
    /\ loads[key].item[id].stage = "score"
    /\ validCTI(id) = OK
    /\ loads' = [loads EXCEPT ![key].item[id].stage = "voted",
                              ![key].item[id].score = Score(ctiRecords[id])]
    /\ UNCHANGED <<chain, app, ctiList, loading, voting, votes, started, shown,
                   allOk>>

\* const hasVoted = account ? await contract.hasUserVoted(id, account) : false;
\* the IPFS metadata that follows has its own catch and cannot fail the item.
feedHasUserVoted(key, id) ==
    /\ loads[key].pc = "items"
    /\ loads[key].item[id].stage = "voted"
    /\ loads' = [loads EXCEPT ![key].item[id].stage = "done",
                              ![key].item[id].hasVoted =
                                  IF account # NoAccount THEN hasVoted[id][account]
                                  ELSE FALSE]
    /\ UNCHANGED <<chain, app, ctiList, loading, voting, votes, started, shown,
                   allOk>>

\* One of the three requests of an id fails: the inner catch logs and the
\* promise returns null.
feedItemReject(key, id) ==
    /\ loads[key].pc = "items"
    /\ loads[key].item[id].stage \in {"cti", "score", "voted"}
    /\ loads' = [loads EXCEPT ![key].item[id] = [NoItem EXCEPT !.stage = "null"]]
    /\ allOk' = FALSE
    /\ UNCHANGED <<chain, app, ctiList, loading, voting, votes, started, shown>>

\* Promise.all settles: setCtiList(ctiData); finally setLoading(false).
loadCTIFeedDone(key) ==
    /\ loads[key].pc = "items"
    /\ \A i \in IdsOf(loads[key].ids) : loads[key].item[i].stage \in {"done", "null"}
    /\ ctiList' = CtiData(loads[key])
    /\ shown' = loads[key].seq
    /\ loading' = FALSE
    /\ loads' = [loads EXCEPT ![key] = NoLoad]
    /\ AfterLoad(key)
    /\ UNCHANGED <<chain, app, started, allOk>>

\* A click on a vote button of a shown item: handleVote(ctiId, isUpvote) up
\* to await getContract().
handleVote(ctiId, isUpvote) ==
    /\ \E cti \in ShownItems : cti.id = ctiId /\ ~Disabled(cti)
    /\ votes[ctiId].pc = "idle"
    /\ voting' = [voting EXCEPT ![ctiId] = TRUE]
    /\ votes' = [votes EXCEPT ![ctiId] = [pc |-> "contract", isUpvote |-> isUpvote]]
    /\ UNCHANGED <<chain, app, ctiList, loading, loads, started, shown, allOk>>

\* await getContract() returns the contract bound to the signer;
\* contract.voteCTI(ctiId, isUpvote) is requested.
handleVoteContract(ctiId) ==
    /\ votes[ctiId].pc = "contract"
    /\ votes' = [votes EXCEPT ![ctiId].pc = "send"]
    /\ UNCHANGED <<chain, app, ctiList, loading, voting, loads, started, shown,
                   allOk>>

\* await contract.voteCTI(...) returns the transaction the wallet has sent;
\* tx.wait() is pending.
handleVoteSent(ctiId) ==
    /\ votes[ctiId].pc = "send"
    /\ votes' = [votes EXCEPT ![ctiId].pc = "wait"]
    /\ UNCHANGED <<chain, app, ctiList, loading, voting, loads, started, shown,
                   allOk>>

\* The network has mined the transaction of handleVote(ctiId) and its
\* outcome has not been read yet.
Mined(ctiId) ==
    /\ lastOp.call.op = "voteCTI"
    /\ lastOp.call.sender = account
    /\ lastOp.call.id = ctiId

\* The transaction of handleVote(ctiId) is mined: voteCTI runs with the
\* account as msg.sender.
handleVoteMined(ctiId) ==
    /\ votes[ctiId].pc = "wait"
    /\ voteCTI(account, ctiId, votes[ctiId].isUpvote)

\* Variant: voting[ctiId] is left as it is when the call fails.
handleVoteRejectNoFinally(ctiId) ==
    /\ votes[ctiId].pc \in {"contract", "send", "wait"}
    /\ ~Mined(ctiId)
    /\ votes' = [votes EXCEPT ![ctiId] = NoVote]
    /\ UNCHANGED <<chain, app, ctiList, loading, voting, loads, started, shown,
                   allOk>>

\* getContract, the voteCTI request (refused in the wallet, or reverting when
\* its gas is estimated) or tx.wait() (the transaction is dropped) throws:
\* catch alerts, finally voting[ctiId] is false.
handleVoteReject(ctiId) ==
    /\ votes[ctiId].pc \in {"contract", "send", "wait"}
    /\ ~Mined(ctiId)
    /\ voting' = [voting EXCEPT ![ctiId] = FALSE]
    /\ votes' = [votes EXCEPT ![ctiId] = NoVote]
    /\ UNCHANGED <<chain, app, ctiList, loading, loads, started, shown, allOk>>

\* await tx.wait() settles on the mined transaction: a revert goes to catch
\* and finally; a success calls loadCTIFeed, which runs to its first await.
handleVoteReceipt(ctiId) ==
    /\ votes[ctiId].pc = "wait"
    /\ Mined(ctiId)
    /\ lastOp' = Idle
    /\ IF lastOp.err = OK
       THEN /\ LoadStarted(ctiId)
            /\ votes' = [votes EXCEPT ![ctiId].pc = "reload"]
            /\ UNCHANGED voting
       ELSE /\ voting' = [voting EXCEPT ![ctiId] = FALSE]
            /\ votes' = [votes EXCEPT ![ctiId] = NoVote]
            /\ UNCHANGED <<loading, started, loads>>
    /\ UNCHANGED <<registry, now, okSubmits, okVotes, app, ctiList, shown, allOk>>

\* Another identity's client votes.
otherVote(sender, id, isUpvote) ==
    /\ sender # account
    /\ voteCTI(sender, id, isUpvote)

\* Another identity's client reads the outcome of its call.
otherReturn ==
    /\ lastOp # Idle
    /\ lastOp.call.sender # account
    /\ Return

\* CTIFeed as App has just mounted it for the connected account "Y", the
\* mount effect having called loadCTIFeed; the registry holds n records
\* submitted by "X" and no vote yet.
FeedInit ==
    \E n \in 1..MaxCti :
        /\ account = "Y"
        /\ isConnected = TRUE
        /\ appLoading = FALSE
        /\ activeTab = "feed"
        /\ wallet = <<"Y">>
        /\ checkConn = [pc |-> "done", accounts |-> <<>>]
        /\ connect = [pc |-> "idle", account |-> NoAccount]
        /\ ctiList = <<>>
        /\ loading = TRUE
        /\ voting = [i \in Ids |-> FALSE]
        /\ loads = [k \in LoadKeys |->
                       IF k = 0 THEN [NoLoad EXCEPT !.pc = "ids", !.seq = 1]
                       ELSE NoLoad]
        /\ votes = [i \in Ids |-> NoVote]
        /\ started = 1
        /\ shown = 0
        /\ allOk = TRUE
        /\ ctiCounter = n
        /\ ctiRecords = [i \in Ids |->
                            IF i \in 1..n
                            THEN NewCTI(i, "X", "Qm1", "Malware", "T1", 0)
                            ELSE EmptyCTI]
        /\ hasVoted = [i \in Ids |-> [a \in Addr |-> FALSE]]
        /\ userSubmissions = [a \in Addr |-> IF a = "X" THEN n ELSE 0]
        /\ events = [i \in 1..n |-> CTISubmitted(i, "X", "Qm1", "Malware", "T1")]
        /\ now = 0
        /\ lastOp = Idle
        /\ okSubmits = n
        /\ okVotes = {}

\* The steps of one loadCTIFeed call.
LoadStep(key) ==
    \/ getActiveCTIsResolve(key)
    \/ getActiveCTIsReject(key)
    \/ \E id \in FeedIds : feedGetCTI(key, id)
    \/ \E id \in FeedIds : feedGetCTIScore(key, id)
    \/ \E id \in FeedIds : feedHasUserVoted(key, id)
    \/ \E id \in FeedIds : feedItemReject(key, id)
    \/ loadCTIFeedDone(key)

\* The steps by which the calls handleVote(ctiId) awaits settle.
VoteStep(ctiId) ==
    \/ handleVoteContract(ctiId)
    \/ handleVoteSent(ctiId)
    \/ handleVoteMined(ctiId)
    \/ handleVoteReject(ctiId)
    \/ handleVoteReceipt(ctiId)

FeedNext ==
    \/ \E key \in LoadKeys : LoadStep(key)
    \/ \E ctiId \in FeedIds, isUpvote \in BOOLEAN : handleVote(ctiId, isUpvote)
    \/ \E ctiId \in FeedIds : VoteStep(ctiId)
    \/ \E sender \in Addr, id \in FeedIds, isUpvote \in BOOLEAN :
          otherVote(sender, id, isUpvote)
    \/ otherReturn

SpecFeed == FeedInit /\ [][FeedNext]_vars

\* Every request a call awaits settles: it is answered or it fails, and the
\* event loop then runs the continuation.  Clicks and other clients' calls
\* are under no such obligation.
FeedFairness ==
    /\ \A key \in LoadKeys : WF_vars(LoadStep(key))
    /\ \A ctiId \in FeedIds : WF_vars(VoteStep(ctiId))

\* CTIFeed on its own, mounted on two records: the steps of its calls, with
\* no other client sending transactions meanwhile.
FeedOwnInit == FeedInit /\ ctiCounter = MaxCti

FeedOwnNext ==
    \/ \E key \in LoadKeys : LoadStep(key)
    \/ \E ctiId \in FeedIds, isUpvote \in BOOLEAN : handleVote(ctiId, isUpvote)
    \/ \E ctiId \in FeedIds : VoteStep(ctiId)

SpecFeedFair == FeedOwnInit /\ [][FeedOwnNext]_vars /\ FeedFairness

\* ----------------------------------------------------------- vocabulary

\* The error kind the specification gives each revert string of the contract.
ErrorKind(err) ==
    CASE err \in {"IPFS hash cannot be empty", "Category cannot be empty",
                  "Title cannot be empty", "Invalid limit"} -> "InvalidArgument"
      [] err \in {"CTI does not exist", "CTI is not active"} -> "NotFound"
      [] err = "Already voted on this CTI" -> "AlreadyVoted"
      [] err = "Cannot vote on own submission" -> "SelfVoteForbidden"
      [] OTHER -> err

\* The latest call, as a state predicate (the state is the one the call left).
Called(op) == lastOp.call.op = op
Succeeded(op) == Called(op) /\ lastOp.err = OK
Failed(op) == Called(op) /\ lastOp.err # OK

\* Ids that have been assigned.
Assigned == 1..ctiCounter

\* The latest event of the log.
LastEvent == events[Len(events)]

\* ------------------------------------------------------------------- C1

C2_ExactlyOnceVote ==
    [][ (/\ lastOp'.call.op = "voteCTI"
         /\ <<lastOp'.call.id, lastOp'.call.sender>> \in okVotes)
        => /\ ErrorKind(lastOp'.err) = "AlreadyVoted"
           /\ ctiRecords' = ctiRecords ]_vars

\* A downvote refused after the same voter's upvote on the same record.
C2_Witness ==
    /\ Failed("voteCTI")
    /\ ~lastOp.call.isUpvote
    /\ <<lastOp.call.id, lastOp.call.sender>> \in okVotes
    /\ ctiRecords[lastOp.call.id].upvotes = 1
    /\ ctiRecords[lastOp.call.id].downvotes = 0

\* ------------------------------------------------------------------- C3

\* C3: on every assigned id, a vote by the record's submitter fails with
\* SelfVoteForbidden in every reachable state and changes no tally.
C3_NoSelfVote ==
    [][ (/\ lastOp'.call.op = "voteCTI"
         /\ lastOp'.call.id \in Assigned
         /\ lastOp'.call.sender = ctiRecords[lastOp'.call.id].submitter)
        => /\ ErrorKind(lastOp'.err) = "SelfVoteForbidden"
           /\ ctiRecords' = ctiRecords ]_vars

\* A self-vote refused on a record that other identities have voted on.
C3_Witness ==
    /\ Failed("voteCTI")
    /\ lastOp.call.id \in Assigned
    /\ lastOp.call.sender = ctiRecords[lastOp.call.id].submitter
    /\ ctiRecords[lastOp.call.id].upvotes + ctiRecords[lastOp.call.id].downvotes = 2

\* ------------------------------------------------------------------- C4

\* C4: in every reachable state no assigned record's submitter is marked as
\* having voted on that record.
C4_SubmitterNeverVoted ==
    \A id \in Assigned : ~hasVoted[id][ctiRecords[id].submitter]

\* The submitter has just tried to vote on a record another identity voted on.
C4_Witness ==
    /\ Called("voteCTI")
    /\ lastOp.call.id \in Assigned
    /\ lastOp.call.sender = ctiRecords[lastOp.call.id].submitter
    /\ \E a \in Addr : hasVoted[lastOp.call.id][a]

\* ------------------------------------------------------------------- C5

\* C5: the record ids are exactly 1..ctiCounter: the counter equals the number
\* of records ever created, every id in that range holds a record whose id
\* field is its key, and id 0 and the ids above the counter hold no record.
C5_DenseIds ==
    /\ ctiCounter = Cardinality({i \in Ids : ctiRecords[i] # EmptyCTI})
    /\ ctiCounter = okSubmits
    /\ \A i \in Assigned : ctiRecords[i].id = i /\ ctiRecords[i] # EmptyCTI
    /\ \A i \in Ids \ Assigned : ctiRecords[i] = EmptyCTI

\* Two records exist and a further slot is still empty.
C5_Witness ==
    /\ ctiCounter = 2
    /\ ctiRecords[2].id = 2
    /\ ctiRecords[3] = EmptyCTI

\* ------------------------------------------------------------------- C6

\* C6: a successful voteCTI(id, isUpvote) marks (id, voter) as voted and adds
\* exactly 1 to upvotes when isUpvote, to downvotes otherwise; the record's
\* other tally keeps its value.
C6_VoteEffect ==
    [][ (lastOp'.call.op = "voteCTI" /\ lastOp'.err = OK)
        => LET id == lastOp'.call.id
               up == lastOp'.call.isUpvote
           IN  /\ hasVoted'[id][lastOp'.call.sender]
               /\ ctiRecords'[id].upvotes =
                     ctiRecords[id].upvotes + (IF up THEN 1 ELSE 0)
               /\ ctiRecords'[id].downvotes =
                     ctiRecords[id].downvotes + (IF up THEN 0 ELSE 1) ]_vars

\* A successful downvote on a record that already had an upvote.
C6_Witness ==
    /\ Succeeded("voteCTI")
    /\ ~lastOp.call.isUpvote
    /\ ctiRecords[lastOp.call.id].upvotes = 1
    /\ ctiRecords[lastOp.call.id].downvotes = 1

\* ------------------------------------------------------------------- C7

\* C7: the upvotes and downvotes of every id are 0 when its record is created
\* and never decrease in any step (submit, vote or read, successful or not).
C7_VoteMonotonicity ==
    [][ \A id \in Ids :
          /\ ctiRecords'[id].upvotes >= ctiRecords[id].upvotes
          /\ ctiRecords'[id].downvotes >= ctiRecords[id].downvotes
          /\ (id \notin Assigned /\ id \in 1..ctiCounter')
                => ctiRecords'[id].upvotes = 0 /\ ctiRecords'[id].downvotes = 0
      ]_vars

\* A record that has received both an upvote and a downvote.
C7_Witness ==
    \E id \in Assigned :
        ctiRecords[id].upvotes = 1 /\ ctiRecords[id].downvotes = 1

\* ------------------------------------------------------------------- C8

\* C8: submitCTI with an empty ipfsHash, category or title fails with
\* InvalidArgument and leaves the counter, every record, every submission
\* counter, the vote relation and the event log unchanged.
C8_EmptyFieldRejected ==
    [][ (/\ lastOp'.call.op = "submitCTI"
         /\ \/ lastOp'.call.ipfsHash = ""
            \/ lastOp'.call.category = ""
            \/ lastOp'.call.title = "")
        => /\ ErrorKind(lastOp'.err) = "InvalidArgument"
           /\ registry' = registry ]_vars

\* A submit refused for its empty title alone, on a registry holding a record.
C8_Witness ==
    /\ Failed("submitCTI")
    /\ lastOp.call.title = "" /\ lastOp.call.ipfsHash # "" /\ lastOp.call.category # ""
    /\ ctiCounter = 1

\* ------------------------------------------------------------------- C9

\* C9: a successful submitCTI(ipfsHash, category, title) by s stores under the
\* new id a record with submitter s, the three arguments, upvotes = downvotes
\* = 0, isActive = true and timestamp = block.timestamp, and getCTI of the new
\* id then succeeds and returns exactly that record.
C9_SubmitCreatesRecord ==
    Succeeded("submitCTI") =>
        LET rec == [id |-> ctiCounter, submitter |-> lastOp.call.sender,
                    ipfsHash |-> lastOp.call.ipfsHash,
                    category |-> lastOp.call.category,
                    title |-> lastOp.call.title, timestamp |-> now,
                    upvotes |-> 0, downvotes |-> 0, isActive |-> TRUE]
        IN  /\ ctiRecords[ctiCounter] = rec
            /\ validCTI(ctiCounter) = OK
            /\ GetCTIReturn(ctiCounter) = <<rec>>

\* The second record, created after the clock has advanced.
C9_Witness ==
    /\ Succeeded("submitCTI")
    /\ ctiCounter = 2
    /\ ctiRecords[2].timestamp = 1
    /\ ctiRecords[1].timestamp = 0

\* ------------------------------------------------------------------ C10

\* C10: a successful submitCTI adds exactly 1 to the caller's submission
\* counter and leaves every other identity's counter unchanged; no other step
\* (a vote, a failed call, a read) changes any submission counter.
C10_SubmissionCounter ==
    [][ IF lastOp'.call.op = "submitCTI" /\ lastOp'.err = OK
        THEN \A a \in Addr :
                userSubmissions'[a] =
                   userSubmissions[a] + (IF a = lastOp'.call.sender THEN 1 ELSE 0)
        ELSE userSubmissions' = userSubmissions ]_vars

\* One identity's submission, after another identity's.
C10_Witness ==
    /\ Succeeded("submitCTI")
    /\ userSubmissions[lastOp.call.sender] = 1
    /\ \E a \in Addr \ {lastOp.call.sender} : userSubmissions[a] = 1

\* ------------------------------------------------------------------ C11

\* The active ids, as a set and as the sequence in descending id order.
ActiveIds == {i \in Assigned : ctiRecords[i].isActive}

RECURSIVE Descending(_)
Descending(S) ==
    IF S = {} THEN <<>>
    ELSE LET m == CHOOSE x \in S : \A y \in S : y <= x
         IN  <<m>> \o Descending(S \ {m})

Min(a, b) == IF a <= b THEN a ELSE b
Max(a, b) == IF a >= b THEN a ELSE b

\* The elements of seq at the 0-based positions [offset, offset + limit).
Slice(seq, offset, limit) ==
    [k \in 1..Min(limit, Max(0, Len(seq) - offset)) |-> seq[offset + k]]

\* C11: for every limit in 1..100 and every offset, getActiveCTIs(limit,
\* offset) returns the sub-slice [offset, offset + limit) of the active ids
\* in descending order; inactive records use up neither offset nor limit,
\* and the length is min(limit, max(0, number of active records - offset)).
C11_ListIsSlice ==
    (Called("getActiveCTIs") /\ lastOp.call.limit \in 1..MaxLimit) =>
        /\ lastOp.err = OK
        /\ lastOp.ret = <<Slice(Descending(ActiveIds), lastOp.call.offset,
                                lastOp.call.limit)>>
        /\ Len(lastOp.ret[1]) =
              Min(lastOp.call.limit,
                  Max(0, Cardinality(ActiveIds) - lastOp.call.offset))

\* Three records, the middle one inactive: the page of 2 at offset 0 is 3, 1.
C11_Witness ==
    /\ Succeeded("getActiveCTIs")
    /\ lastOp.call.limit = 2 /\ lastOp.call.offset = 0
    /\ ctiCounter = 3 /\ ActiveIds = {1, 3}
    /\ lastOp.ret = << <<3, 1>> >>

\* ------------------------------------------------------------------ C12

\* The pages a client gets in one storage state by calling getActiveCTIs(limit,
\* offset), getActiveCTIs(limit, offset + limit), ... until a page is empty,
\* concatenated.
RECURSIVE Pages(_, _)
Pages(limit, offset) ==
    LET page == ActiveCTIs(limit, offset)
    IN  IF page = <<>> THEN <<>> ELSE page \o Pages(limit, offset + limit)

\* C12: in every storage state and for every valid limit, the pages at offsets
\* 0, limit, 2*limit, ... up to the first empty page concatenate to the full
\* descending sequence of active ids: no id twice, none missing.
C12_Pagination ==
    \A limit \in Limits \cap (1..MaxLimit) :
        /\ Pages(limit, 0) = Descending(ActiveIds)
        /\ Len(Pages(limit, 0)) = Cardinality(ActiveIds)
        /\ {Pages(limit, 0)[k] : k \in 1..Len(Pages(limit, 0))} = ActiveIds

\* The second page of size 1 has just been read, past an inactive record.
C12_Witness ==
    /\ Succeeded("getActiveCTIs")
    /\ lastOp.call.limit = 1 /\ lastOp.call.offset = 1
    /\ ctiCounter = 3 /\ ActiveIds = {1, 3}
    /\ lastOp.ret = << <<1>> >>
    /\ Pages(1, 0) = <<3, 1>>

\* ------------------------------------------------------------------ C13

\* C13: getActiveCTIs(limit, offset) fails with InvalidArgument whenever
\* limit = 0 or limit > 100, for every offset and in every state, the empty
\* registry included, and succeeds for every limit in 1..100.
C13_LimitValidation ==
    Called("getActiveCTIs") =>
        /\ (lastOp.call.limit = 0 \/ lastOp.call.limit > 100)
              => ErrorKind(lastOp.err) = "InvalidArgument"
        /\ lastOp.call.limit \in 1..100 => lastOp.err = OK

\* Limit 101 refused on the empty registry.
C13_Witness ==
    /\ Failed("getActiveCTIs")
    /\ lastOp.call.limit = 101
    /\ ctiCounter = 0

\* ------------------------------------------------------------------ C14

\* C14: getActiveCTIs with a valid limit does not fail whatever the offset,
\* and returns the empty sequence when the offset is at least the number of
\* active records, as it always is on the empty registry.
C14_OffsetBeyondEnd ==
    (Called("getActiveCTIs") /\ lastOp.call.limit \in 1..100) =>
        /\ lastOp.err = OK
        /\ lastOp.call.offset >= Cardinality(ActiveIds)
              => lastOp.ret = << <<>> >>

\* Offset 2 on a registry of two records: the page is empty.
C14_Witness ==
    /\ Succeeded("getActiveCTIs")
    /\ lastOp.call.offset = 2
    /\ Cardinality(ActiveIds) = 2
    /\ lastOp.ret = << <<>> >>

\* ------------------------------------------------------------------ C15

\* C15: in every reachable state and for every active id, getCTIScore(id)
\* succeeds and returns getCTI(id).upvotes - getCTI(id).downvotes as a signed
\* integer, negative exactly when the downvotes exceed the upvotes.
C15_ScoreIdentity ==
    (Called("getCTIScore") /\ lastOp.call.id \in ActiveIds) =>
        LET rec == GetCTIReturn(lastOp.call.id)[1]
        IN  /\ validCTI(lastOp.call.id) = OK
            /\ lastOp.err = OK
            /\ lastOp.ret = <<rec.upvotes - rec.downvotes>>
            /\ lastOp.ret[1] < 0 <=> rec.downvotes > rec.upvotes

\* The score of a record whose only vote is a downvote: -1.
C15_Witness ==
    /\ Succeeded("getCTIScore")
    /\ lastOp.ret = <<-1>>
    /\ ctiRecords[lastOp.call.id].downvotes = 1

\* ------------------------------------------------------------------ C16

\* C16: getCTI(id) and getCTIScore(id) fail with NotFound exactly when id = 0,
\* id > ctiCounter or the record at id is inactive, hence for every id on an
\* empty registry; otherwise they succeed and getCTI returns all nine fields
\* of the record as currently stored.
C16_GetNotFound ==
    (Called("getCTI") \/ Called("getCTIScore")) =>
        LET id == lastOp.call.id
            missing == id = 0 \/ id > ctiCounter \/ ~ctiRecords[id].isActive
        IN  /\ missing => ErrorKind(lastOp.err) = "NotFound"
            /\ ~missing => lastOp.err = OK
            /\ (Called("getCTI") /\ ~missing) =>
                  /\ lastOp.ret = <<ctiRecords[id]>>
                  /\ DOMAIN lastOp.ret[1] =
                        {"id", "submitter", "ipfsHash", "category", "title",
                         "timestamp", "upvotes", "downvotes", "isActive"}
                  /\ lastOp.ret[1].id = id

\* getCTI refused on an assigned record whose isActive is false.
C16_Witness ==
    /\ Failed("getCTI")
    /\ lastOp.call.id \in Assigned
    /\ ~ctiRecords[lastOp.call.id].isActive
    /\ lastOp.err = "CTI is not active"

\* ------------------------------------------------------------------ C17

\* The outcome the four preconditions of vote give in the order existence,
\* activity, duplicate vote, self-vote, the first violated one deciding.
ExpectedVoteOutcome(id, sender) ==
    IF id \notin 1..ctiCounter THEN "NotFound"
    ELSE IF ~ctiRecords[id].isActive THEN "NotFound"
    ELSE IF hasVoted[id][sender] THEN "AlreadyVoted"
    ELSE IF ctiRecords[id].submitter = sender THEN "SelfVoteForbidden"
    ELSE OK

\* C17: the outcome of every voteCTI call is that of its preconditions taken
\* in the order existence, activity, duplicate vote, self-vote: an id outside
\* 1..ctiCounter gives NotFound for every caller, whatever they voted on
\* before, and a submitter already marked as voted gets AlreadyVoted, not
\* SelfVoteForbidden.
C17_VoteCheckOrder ==
    [][ lastOp'.call.op = "voteCTI" =>
          LET id == lastOp'.call.id
              sender == lastOp'.call.sender
          IN  /\ ErrorKind(lastOp'.err) = ExpectedVoteOutcome(id, sender)
              /\ id \notin 1..ctiCounter => ErrorKind(lastOp'.err) = "NotFound"
              /\ (/\ id \in ActiveIds
                  /\ hasVoted[id][sender]
                  /\ ctiRecords[id].submitter = sender)
                    => ErrorKind(lastOp'.err) = "AlreadyVoted" ]_vars

\* A vote by a submitter who is marked as having voted on the own, active
\* record: refused as a duplicate.
C17_Witness ==
    /\ Failed("voteCTI")
    /\ lastOp.call.id \in ActiveIds
    /\ hasVoted[lastOp.call.id][lastOp.call.sender]
    /\ ctiRecords[lastOp.call.id].submitter = lastOp.call.sender
    /\ lastOp.err = "Already voted on this CTI"

\* ------------------------------------------------------------------ C18

\* The error kinds each operation may fail with.
FailureKinds(op) ==
    CASE op = "submitCTI" -> {"InvalidArgument"}
      [] op = "voteCTI" -> {"NotFound", "AlreadyVoted", "SelfVoteForbidden"}
      [] op \in {"getCTI", "getCTIScore"} -> {"NotFound"}
      [] op = "getActiveCTIs" -> {"InvalidArgument"}
      [] OTHER -> {}

\* C18: every failed call (submit, vote, get, score, listActive) fails with
\* one of its error kinds and leaves the counter, the records and tallies, the
\* vote marks, the submission counters and the event log as they were.
C18_FailureChangesNothing ==
    [][ (lastOp' # Idle /\ lastOp'.err # OK)
        => /\ registry' = registry
           /\ ErrorKind(lastOp'.err) \in FailureKinds(lastOp'.call.op) ]_vars

\* A submit refused for its empty category after two records and two votes.
C18_Witness ==
    /\ Failed("submitCTI")
    /\ lastOp.call.category = "" /\ lastOp.call.ipfsHash # ""
    /\ ctiCounter = 2
    /\ VotesCast = 2

\* ------------------------------------------------------------------ C19

C20_VoteRelationGrows ==
    [][ \A id \in Ids, a \in Addr :
          /\ hasVoted[id][a] => hasVoted'[id][a]
          /\ (~hasVoted[id][a] /\ hasVoted'[id][a])
                => /\ lastOp'.call.op = "voteCTI"
                   /\ lastOp'.err = OK
                   /\ lastOp'.call.id = id
                   /\ lastOp'.call.sender = a ]_vars

\* The mark of an earlier voter is still there after another voter's
\* successful vote on the same record.
C20_Witness ==
    /\ Succeeded("voteCTI")
    /\ \E a \in Addr : a # lastOp.call.sender /\ hasVoted[lastOp.call.id][a]

\* ------------------------------------------------------------------ C21

\* C21: over every step (a submit, a vote or a read by any identity, whether
\* it succeeds or fails) each assigned record keeps its id, submitter,
\* ipfsHash, category, title and timestamp, stays assigned and stays a record.
C21_RecordImmutable ==
    [][ \A id \in Assigned :
          /\ ctiRecords'[id].id = ctiRecords[id].id
          /\ ctiRecords'[id].submitter = ctiRecords[id].submitter
          /\ ctiRecords'[id].ipfsHash = ctiRecords[id].ipfsHash
          /\ ctiRecords'[id].category = ctiRecords[id].category
          /\ ctiRecords'[id].title = ctiRecords[id].title
          /\ ctiRecords'[id].timestamp = ctiRecords[id].timestamp
          /\ id <= ctiCounter'
          /\ ctiRecords'[id] # EmptyCTI ]_vars

\* A vote cast at time 1 on the first record, created at time 0, after a
\* second record with other contents has been submitted.
C21_Witness ==
    /\ Succeeded("voteCTI")
    /\ lastOp.call.id = 1
    /\ now = 1
    /\ ctiRecords[1].timestamp = 0
    /\ ctiCounter = 2
    /\ ctiRecords[2].title # ctiRecords[1].title

\* ------------------------------------------------------------------ C22

\* C22: getActiveCTICount returns the number of ids in 1..ctiCounter whose
\* record is active: 0 on a registry without records and, when no record is
\* inactive, the number of successful submits.
C22_ActiveCount ==
    Called("getActiveCTICount") =>
        /\ lastOp.err = OK
        /\ lastOp.ret = <<Cardinality({i \in 1..ctiCounter : ctiRecords[i].isActive})>>
        /\ ctiCounter = 0 => lastOp.ret = <<0>>
        /\ (\A i \in 1..ctiCounter : ctiRecords[i].isActive)
              => lastOp.ret = <<okSubmits>>

\* Three records, one of them inactive: the count is 2.
C22_Witness ==
    /\ Succeeded("getActiveCTICount")
    /\ ctiCounter = 3
    /\ ~ctiRecords[2].isActive
    /\ lastOp.ret = <<2>>

\* ------------------------------------------------------------------ C23

\* The elements of a sequence.
Range(seq) == {seq[k] : k \in 1..Len(seq)}

\* C23: for an assigned id whose record is inactive, voteCTI, getCTI and
\* getCTIScore fail with NotFound and change nothing; no getActiveCTIs result
\* holds such an id and getActiveCTICount does not count it.
C23_InactiveInvisible ==
    [][ LET Inactive == {i \in Assigned : ~ctiRecords[i].isActive}
        IN  /\ (/\ lastOp'.call.op \in {"voteCTI", "getCTI", "getCTIScore"}
                /\ lastOp'.call.id \in Inactive)
               => /\ ErrorKind(lastOp'.err) = "NotFound"
                  /\ registry' = registry
            /\ (lastOp'.call.op = "getActiveCTIs" /\ lastOp'.err = OK)
               => Range(lastOp'.ret[1]) \cap Inactive = {}
            /\ lastOp'.call.op = "getActiveCTICount"
               => lastOp'.ret[1] <= ctiCounter - Cardinality(Inactive) ]_vars

\* A vote by an identity that is neither the submitter nor marked as voted,
\* refused because the record is inactive.
C23_Witness ==
    /\ Failed("voteCTI")
    /\ lastOp.call.id \in Assigned
    /\ ~ctiRecords[lastOp.call.id].isActive
    /\ ctiRecords[lastOp.call.id].submitter # lastOp.call.sender
    /\ ~hasVoted[lastOp.call.id][lastOp.call.sender]

\* ------------------------------------------------------------------ C24

\* The CTISubmitted events of the log, oldest first.
SubmittedEvents == SelectSeq(events, LAMBDA e : e.name = "CTISubmitted")

\* C24: a successful submitCTI appends one CTISubmitted event whose id,
\* submitter, ipfsHash, category and title are those of the record it
\* created, and no other step changes the CTISubmitted events of the log; so
\* in every state after such a step the CTISubmitted events carry the ids
\* 1, 2, ..., ctiCounter in that order.
C24_SubmittedEvent ==
    [][ /\ IF lastOp'.call.op = "submitCTI" /\ lastOp'.err = OK
           THEN LET e == events'[Len(events')]
                    rec == ctiRecords'[ctiCounter']
                IN  /\ Len(events') = Len(events) + 1
                    /\ SubSeq(events', 1, Len(events)) = events
                    /\ e.name = "CTISubmitted"
                    /\ e.id = rec.id /\ e.id = ctiCounter'
                    /\ e.submitter = rec.submitter
                    /\ e.submitter = lastOp'.call.sender
                    /\ e.ipfsHash = rec.ipfsHash
                    /\ e.category = rec.category
                    /\ e.title = rec.title
           ELSE SubmittedEvents' = SubmittedEvents
        /\ Len(SubmittedEvents') = ctiCounter'
        /\ \A k \in 1..ctiCounter' : SubmittedEvents'[k].id = k ]_vars

\* The second submit, by another identity and with other contents than the
\* first, after a CTIVoted event has entered the log.
C24_Witness ==
    /\ Succeeded("submitCTI")
    /\ Len(events) = 3
    /\ events[2].name = "CTIVoted"
    /\ events[3].id = 2
    /\ events[3].submitter # events[1].submitter
    /\ events[3].title # events[1].title

\* ------------------------------------------------------------------ C25

\* Number of CTIVoted events of the log for id with the given direction.
VotedEvents(id, isUpvote) ==
    Cardinality({k \in DOMAIN events :
                    /\ events[k].name = "CTIVoted"
                    /\ events[k].id = id
                    /\ events[k].isUpvote = isUpvote})

\* C25: a successful voteCTI appends one CTIVoted event carrying its id, its
\* sender and its direction, and a failed voteCTI leaves the log as it was;
\* in every state after a step, each id has as many CTIVoted events with
\* isUpvote = true as upvotes and as many with isUpvote = false as downvotes.
C25_VotedEvent ==
    [][ /\ lastOp'.call.op = "voteCTI" =>
              IF lastOp'.err = OK
              THEN events' = Append(events,
                                    [name |-> "CTIVoted", id |-> lastOp'.call.id,
                                     validator |-> lastOp'.call.sender,
                                     isUpvote |-> lastOp'.call.isUpvote])
              ELSE events' = events
        /\ \A id \in Ids :
              /\ VotedEvents(id, TRUE)' = ctiRecords'[id].upvotes
              /\ VotedEvents(id, FALSE)' = ctiRecords'[id].downvotes ]_vars

\* A record's downvote has entered the log after its upvote.
C25_Witness ==
    /\ Succeeded("voteCTI")
    /\ ~lastOp.call.isUpvote
    /\ VotedEvents(lastOp.call.id, TRUE) = 1
    /\ LastEvent.name = "CTIVoted" /\ ~LastEvent.isUpvote

\* ------------------------------------------------------------------ C26

\* The read operations.
Reads == {"getCTI", "getCTIScore", "hasUserVoted", "getActiveCTICount",
          "getActiveCTIs"}

\* The calls of the read operations the client makes.
ReadCalls ==
    {[op |-> "getCTI", id |-> id] : id \in Ids}
    \cup {[op |-> "getCTIScore", id |-> id] : id \in Ids}
    \cup {[op |-> "hasUserVoted", id |-> id, user |-> a] : id \in Ids, a \in Addr}
    \cup {[op |-> "getActiveCTICount"]}
    \cup {[op |-> "getActiveCTIs", limit |-> l, offset |-> o] :
             l \in Limits, o \in Offsets}

\* What the specification says a read answers on the current registry: the
\* error kind (or OK) and the result.
ReadAnswer(c) ==
    CASE c.op \in {"getCTI", "getCTIScore"} ->
           IF c.id \notin ActiveIds THEN <<"NotFound", <<>> >>
           ELSE IF c.op = "getCTI" THEN <<OK, <<ctiRecords[c.id]>> >>
           ELSE <<OK, <<ctiRecords[c.id].upvotes - ctiRecords[c.id].downvotes>> >>
      [] c.op = "hasUserVoted" -> <<OK, << <<c.id, c.user>> \in okVotes >> >>
      [] c.op = "getActiveCTICount" -> <<OK, <<Cardinality(ActiveIds)>> >>
      [] c.op = "getActiveCTIs" ->
           IF c.limit \notin 1..100 THEN <<"InvalidArgument", <<>> >>
           ELSE <<OK, <<Slice(Descending(ActiveIds), c.offset, c.limit)>> >>

\* C26: a step of getCTI, getCTIScore, hasUserVoted, getActiveCTICount or
\* getActiveCTIs, successful or failed, leaves the counter, the records, the
\* vote marks, the submission counters and the event log unchanged; its
\* answer is the one the registry determines, and the same call made again
\* in the state the step leaves gets the same answer.
C26_PureReads ==
    [][ lastOp'.call.op \in Reads =>
          /\ registry' = registry
          /\ \E c \in ReadCalls :
                /\ c = lastOp'.call
                /\ <<ErrorKind(lastOp'.err), lastOp'.ret>> = ReadAnswer(c)
                /\ ReadAnswer(c)' = ReadAnswer(c) ]_vars

\* A successful read of the second page of a registry that holds two records
\* and two votes.
C26_Witness ==
    /\ Succeeded("getActiveCTIs")
    /\ lastOp.call.limit = 1 /\ lastOp.call.offset = 1
    /\ lastOp.ret = << <<1>> >>
    /\ ctiCounter = 2
    /\ VotesCast = 2

\* ------------------------------------------------------------------ C27

\* The registry a sequential machine holds after it has applied, one whole
\* request after the other, the first k requests of the log of applied
\* requests (the event log: one entry per applied submit or vote, in the
\* order of application).  Timestamps are not part of a request: 0 stands
\* for them.
RECURSIVE Replay(_)
Replay(k) ==
    IF k = 0
    THEN [counter |-> 0,
          recs |-> [i \in Ids |-> EmptyCTI],
          voted |-> [i \in Ids |-> [a \in Addr |-> FALSE]],
          subs |-> [a \in Addr |-> 0]]
    ELSE LET s == Replay(k - 1)
             e == events[k]
             n == s.counter + 1
         IN  IF e.name = "CTISubmitted"
             THEN [counter |-> n,
                   recs |-> [s.recs EXCEPT ![n] =
                               [id |-> n, submitter |-> e.submitter,
                                ipfsHash |-> e.ipfsHash, category |-> e.category,
                                title |-> e.title, timestamp |-> 0,
                                upvotes |-> 0, downvotes |-> 0,
                                isActive |-> TRUE]],
                   voted |-> s.voted,
                   subs |-> [s.subs EXCEPT ![e.submitter] = @ + 1]]
             ELSE IF /\ e.id \in 1..s.counter
                     /\ s.recs[e.id].isActive
                     /\ ~s.voted[e.id][e.validator]
                     /\ s.recs[e.id].submitter # e.validator
             THEN [s EXCEPT
                     !.voted[e.id][e.validator] = TRUE,
                     !.recs[e.id].upvotes = @ + (IF e.isUpvote THEN 1 ELSE 0),
                     !.recs[e.id].downvotes = @ + (IF e.isUpvote THEN 0 ELSE 1)]
             ELSE s

\* Number of CTIVoted events of the log for id sent by voter.
VotesBy(id, voter) ==
    Cardinality({k \in DOMAIN events :
                    /\ events[k].name = "CTIVoted"
                    /\ events[k].id = id
                    /\ events[k].validator = voter})

\* C27: whatever identities send whatever submits and votes in whatever
\* order, the registry is the one a sequential machine reaches by applying
\* the applied requests whole, one after the other, in log order; the
\* successful submits hold the distinct ids 1..n, and of the votes of one
\* voter on one record exactly one is applied, every other one failing with
\* AlreadyVoted.
C27_Serial ==
    LET r == Replay(Len(events))
    IN  /\ ctiCounter = r.counter
        /\ [i \in Ids |-> [ctiRecords[i] EXCEPT !.timestamp = 0]] = r.recs
        /\ hasVoted = r.voted
        /\ userSubmissions = r.subs
        /\ {ctiRecords[i].id : i \in 1..ctiCounter} = 1..okSubmits
        /\ \A id \in Ids, a \in Addr :
              VotesBy(id, a) = IF <<id, a>> \in okVotes THEN 1 ELSE 0
        /\ (/\ Called("voteCTI")
            /\ <<lastOp.call.id, lastOp.call.sender>> \in okVotes
            /\ lastOp.err # OK)
              => ErrorKind(lastOp.err) = "AlreadyVoted"

\* Two identities have each submitted a record, and a voter's second vote on
\* one of them has just been refused.
C27_Witness ==
    /\ Failed("voteCTI")
    /\ lastOp.err = "Already voted on this CTI"
    /\ VotesBy(lastOp.call.id, lastOp.call.sender) = 1
    /\ ctiCounter = 2
    /\ ctiRecords[1].submitter # ctiRecords[2].submitter

\* ------------------------------------------------------------------ C28

\* C28: the timestamps of the assigned records do not decrease with the id.
C28_TimestampMonotone ==
    \A i \in Assigned, j \in Assigned :
        i < j => ctiRecords[i].timestamp <= ctiRecords[j].timestamp

\* Two records created in the same block, after the clock has advanced: their
\* timestamps are equal.
C28_Witness ==
    /\ ctiCounter = 2
    /\ ctiRecords[1].timestamp = 1
    /\ ctiRecords[2].timestamp = 1

\* ------------------------------------------------------------------ C29

\* C29: as long as no submit has succeeded the registry is the deployed one:
\* counter 0, no record, no vote mark, every submission counter 0 and an
\* empty log; there getActiveCTICount returns 0, getActiveCTIs with a valid
\* limit returns the empty sequence, and getCTI, getCTIScore and voteCTI fail
\* with NotFound for every id.
C29_FreshRegistry ==
    okSubmits = 0 =>
        /\ ctiCounter = 0
        /\ \A i \in Ids : ctiRecords[i] = EmptyCTI
        /\ \A i \in Ids, a \in Addr : ~hasVoted[i][a]
        /\ \A a \in Addr : userSubmissions[a] = 0
        /\ events = <<>>
        /\ Called("getActiveCTICount") => lastOp.err = OK /\ lastOp.ret = <<0>>
        /\ (Called("getActiveCTIs") /\ lastOp.call.limit \in 1..100)
              => lastOp.err = OK /\ lastOp.ret = << <<>> >>
        /\ (Called("getCTI") \/ Called("getCTIScore") \/ Called("voteCTI"))
              => ErrorKind(lastOp.err) = "NotFound"

\* A vote on id 1 refused on the deployed registry.
C29_Witness ==
    /\ okSubmits = 0
    /\ Failed("voteCTI")
    /\ lastOp.call.id = 1
    /\ lastOp.err = "CTI does not exist"

\* ------------------------------------------------------------------ C30

\* C30: every getActiveCTIs result is strictly descending, holds only ids of
\* 1..ctiCounter whose record is active and has at most limit elements; the
\* loop visits ctiCounter, ctiCounter - 1, ... and no index below 1, and once
\* it has produced limit results it visits no further index.
C30_ListShape ==
    Succeeded("getActiveCTIs") =>
        LET res == lastOp.ret[1]
            limit == lastOp.call.limit
            trace == ActiveTrace(limit, lastOp.call.offset)
            visited == trace[2]
        IN  /\ \A k \in 1..(Len(res) - 1) : res[k] > res[k + 1]
            /\ \A k \in 1..Len(res) :
                  res[k] \in 1..ctiCounter /\ ctiRecords[res[k]].isActive
            /\ Len(res) <= limit
            /\ trace[1] = res
            /\ \A k \in 1..Len(visited) : visited[k] = ctiCounter - k + 1
            /\ \A k \in 1..Len(visited) : visited[k] >= 1
            /\ Len(res) = limit => visited[Len(visited)] = res[Len(res)]

\* A page of one from three records, the newest inactive: the loop visits 3
\* and 2 and stops there.
C30_Witness ==
    /\ Succeeded("getActiveCTIs")
    /\ lastOp.call.limit = 1 /\ lastOp.call.offset = 0
    /\ ctiCounter = 3
    /\ ActiveIds = {1, 2}
    /\ lastOp.ret = << <<2>> >>
    /\ ActiveTrace(1, 0)[2] = <<3, 2>>

\* ------------------------------------------------------------------ C31

\* The identities marked as having voted on id.
Voters(id) == {v \in Addr : hasVoted[id][v]}

\* C31: for every assigned id, upvotes + downvotes is the number of
\* identities marked as having voted on it, and so at most the number of
\* identities other than the record's submitter.
C31_TallySum ==
    \A id \in Assigned :
        /\ ctiRecords[id].upvotes + ctiRecords[id].downvotes
              = Cardinality(Voters(id))
        /\ ctiRecords[id].upvotes + ctiRecords[id].downvotes
              <= Cardinality(Addr \ {ctiRecords[id].submitter})

\* Every identity other than the submitter has voted on a record, one up and
\* one down.
C31_Witness ==
    \E id \in Assigned :
        /\ Voters(id) = Addr \ {ctiRecords[id].submitter}
        /\ ctiRecords[id].upvotes = 1
        /\ ctiRecords[id].downvotes = 1

\* ------------------------------------------------------------------ C32

\* The sum of the submission counters of the identities of S.
RECURSIVE SumSubmissions(_)
SumSubmissions(S) ==
    IF S = {} THEN 0
    ELSE LET a == CHOOSE x \in S : TRUE
         IN  userSubmissions[a] + SumSubmissions(S \ {a})

\* C32: every identity's submission counter is the number of records it
\* submitted, and the counters of all identities add up to ctiCounter.
C32_SubmissionCounts ==
    /\ \A a \in Addr :
          userSubmissions[a]
             = Cardinality({i \in Assigned : ctiRecords[i].submitter = a})
    /\ SumSubmissions(Addr) = ctiCounter

\* One identity has submitted both records.
C32_Witness ==
    /\ ctiCounter = 2
    /\ ctiRecords[1].submitter = ctiRecords[2].submitter
    /\ userSubmissions[ctiRecords[1].submitter] = 2

\* ------------------------------------------------------------------ C33

\* C33: every assigned record is active in every reachable state, so the
\* active count is ctiCounter, no call fails with 'CTI is not active' and the
\* log holds no CTIDeactivated event.
C33_NeverInactive ==
    /\ \A id \in Assigned : ctiRecords[id].isActive
    /\ ActiveCTICount = ctiCounter
    /\ Called("getActiveCTICount") => lastOp.ret = <<ctiCounter>>
    /\ lastOp.err # "CTI is not active"
    /\ \A k \in DOMAIN events : events[k].name # "CTIDeactivated"

\* The count is read as 2 on a registry whose records have been voted on.
C33_Witness ==
    /\ Succeeded("getActiveCTICount")
    /\ lastOp.ret = <<2>>
    /\ VotesCast = 2

\* ------------------------------------------------------------------ C34

\* C34: a successful voteCTI on id changes, of the whole storage, one tally of
\* record id and the mark of (id, sender): the counter, the other fields of
\* the record, every other record, every other mark, the submission counters,
\* the active count and every page of getActiveCTIs stay as they were.  A
\* successful submitCTI changes no assigned record and no mark.
C34_Frame ==
    [][ /\ (lastOp'.call.op = "voteCTI" /\ lastOp'.err = OK) =>
              LET id == lastOp'.call.id
                  sender == lastOp'.call.sender
                  field == IF lastOp'.call.isUpvote THEN "upvotes" ELSE "downvotes"
              IN  /\ ctiCounter' = ctiCounter
                  /\ \A i \in Ids \ {id} : ctiRecords'[i] = ctiRecords[i]
                  /\ \A f \in DOMAIN ctiRecords[id] \ {field} :
                        ctiRecords'[id][f] = ctiRecords[id][f]
                  /\ ctiRecords'[id][field] # ctiRecords[id][field]
                  /\ \A i \in Ids, a \in Addr :
                        <<i, a>> # <<id, sender>> => hasVoted'[i][a] = hasVoted[i][a]
                  /\ hasVoted'[id][sender] # hasVoted[id][sender]
                  /\ userSubmissions' = userSubmissions
                  /\ ActiveCTICount' = ActiveCTICount
                  /\ \A l \in Limits \cap (1..MaxLimit), o \in Offsets :
                        ActiveCTIs(l, o)' = ActiveCTIs(l, o)
        /\ (lastOp'.call.op = "submitCTI" /\ lastOp'.err = OK) =>
              /\ \A i \in Assigned : ctiRecords'[i] = ctiRecords[i]
              /\ hasVoted' = hasVoted ]_vars

\* A vote on the first of two records, the second of which has a vote of its
\* own by the same identity.
C34_Witness ==
    /\ Succeeded("voteCTI")
    /\ lastOp.call.id = 1
    /\ ctiCounter = 2
    /\ hasVoted[2][lastOp.call.sender]

\* ------------------------------------------------------------------ C35

\* Two votes by different identities succeed in the order first, second on
\* the current storage, and in the other order they succeed too and leave
\* the same records and marks, the log differing in the order of its last
\* two events only.
Commute(a, id1, up1, b, id2, up2) ==
    LET ab1 == VoteOn(VoteStore, a, id1, up1)
        ab2 == VoteOn(ab1[2], b, id2, up2)
        ba1 == VoteOn(VoteStore, b, id2, up2)
        ba2 == VoteOn(ba1[2], a, id1, up1)
        n == Len(events)
    IN  (ab1[1] = OK /\ ab2[1] = OK) =>
           /\ ba1[1] = OK /\ ba2[1] = OK
           /\ ba2[2].recs = ab2[2].recs
           /\ ba2[2].voted = ab2[2].voted
           /\ SubSeq(ab2[2].log, 1, n) = events
           /\ SubSeq(ba2[2].log, 1, n) = events
           /\ Len(ab2[2].log) = n + 2 /\ Len(ba2[2].log) = n + 2
           /\ ab2[2].log[n + 1] = ba2[2].log[n + 2]
           /\ ab2[2].log[n + 2] = ba2[2].log[n + 1]
           /\ ab2[2].log[n + 1] # ab2[2].log[n + 2]

\* The storage before the successful vote that is the latest call.
VoteStoreBefore ==
    LET id == lastOp.call.id
        field == IF lastOp.call.isUpvote THEN "upvotes" ELSE "downvotes"
    IN  [recs |-> [ctiRecords EXCEPT ![id][field] = @ - 1],
         voted |-> [hasVoted EXCEPT ![id][lastOp.call.sender] = FALSE],
         log |-> SubSeq(events, 1, Len(events) - 1)]

\* C35: every voteCTI call is VoteOn applied to the storage, and on every
\* storage state between two calls any two votes by different identities, on
\* one record or on two, that succeed in one order succeed in the other and
\* leave the same tallies and the same marks; only the order of their two
\* CTIVoted events differs.
C35_VotesCommute ==
    /\ Succeeded("voteCTI") =>
          VoteOn(VoteStoreBefore, lastOp.call.sender, lastOp.call.id,
                 lastOp.call.isUpvote) = <<OK, VoteStore>>
    /\ Failed("voteCTI") =>
          VoteOn(VoteStore, lastOp.call.sender, lastOp.call.id,
                 lastOp.call.isUpvote) = <<lastOp.err, VoteStore>>
    /\ lastOp = Idle =>
          \A a \in Addr, b \in Addr, id1 \in Ids, id2 \in Ids,
             up1 \in BOOLEAN, up2 \in BOOLEAN :
             a # b => Commute(a, id1, up1, b, id2, up2)

\* The second of two votes on one record, an upvote after another identity's
\* downvote.
C35_Witness ==
    /\ Succeeded("voteCTI")
    /\ lastOp.call.isUpvote
    /\ Len(events) >= 2
    /\ events[Len(events) - 1].name = "CTIVoted"
    /\ events[Len(events) - 1].id = lastOp.call.id
    /\ ~events[Len(events) - 1].isUpvote
    /\ events[Len(events) - 1].validator # lastOp.call.sender

\* ------------------------------------------------------------------ C36

\* C36: in every state the App reaches through checkConnection,
\* handleConnect (granted or refused), handleDisconnect, accountsChanged
\* events and reloads, isConnected is true exactly when account is a
\* non-empty address, so CTIFeed and CTISubmission are rendered with a
\* non-empty account only.
C36_ConnectedIffAccount ==
    /\ isConnected <=> account # NoAccount
    /\ account # NoAccount => account \in Addr
    /\ Rendered \cap {"CTIFeed", "CTISubmission"} # {} => account \in Addr

\* The wallet was locked while handleConnect was waiting for the network
\* switch; the call then completed and CTISubmission is shown.
C36_Witness ==
    /\ isConnected
    /\ wallet = <<>>
    /\ account = "Y"
    /\ connect.pc = "idle"
    /\ Rendered = {"CTISubmission"}

\* ------------------------------------------------------------------ C37

\* C37: every handleVote(ctiId, _) has voting[ctiId] true from its start,
\* before the transaction is sent, and voting[ctiId] is false again some
\* time later, whether the transaction, its confirmation or the reload
\* succeed or fail; every loadCTIFeed call ends with loading set to false;
\* and while voting[ctiId] is true both vote buttons of the item are disabled.
C37_VotingSettles ==
    /\ [](\A ctiId \in FeedIds : votes[ctiId].pc # "idle" => voting[ctiId])
    /\ [](\A n \in DOMAIN ctiList :
             voting[ctiList[n].id] => Disabled(ctiList[n]))
    /\ \A ctiId \in FeedIds : voting[ctiId] ~> ~voting[ctiId]
    /\ \A key \in LoadKeys :
          (loads[key].pc # "idle") ~> (loads[key].pc = "idle" /\ ~loading)

\* handleVote(1, _) has gone through a mined vote and its reload, whose
\* list is shown, and voting[1] is false again.
C37_Witness ==
    /\ <<1, account>> \in okVotes
    /\ votes[1].pc = "idle"
    /\ ~voting[1]
    /\ loads[1].pc = "idle"
    /\ shown = 2
    /\ ~loading

\* ------------------------------------------------------------------ C38

\* C38: every item of the feed satisfies score = upvotes - downvotes, also
\* when other identities' votes are committed between the getCTI read and
\* the getCTIScore read of the item.
C38_ItemScoreConsistent ==
    \A n \in DOMAIN ctiList :
        ctiList[n].score = ctiList[n].upvotes - ctiList[n].downvotes

\* ------------------------------------------------------------------ C39

\* No loadCTIFeed and no handleVote call is in flight.
FeedQuiet ==
    /\ \A key \in LoadKeys : loads[key].pc = "idle"
    /\ \A ctiId \in FeedIds : votes[ctiId].pc = "idle"

\* C39: once every loadCTIFeed call has completed (here: each of them with
\* all its reads answered), ctiList is the result of the call started last,
\* so every item the account has voted on with success is shown with
\* hasVoted = true and with its vote buttons disabled.
C39_LastLoadShown ==
    FeedQuiet /\ allOk =>
        /\ shown = started
        /\ \A cti \in ShownItems :
              <<cti.id, account>> \in okVotes => cti.hasVoted /\ Disabled(cti)

====
